---- MODULE Spec2Model ----
(***************************************************************************)
(* MiC illumination-correction tool.                                        *)
(*                                                                          *)
(* Spec: the dataset curation notebook (notebooks/create_cidre_dset.ipynb): *)
(* the configuration cells, the "Evaluate I/O directory content" cell and   *)
(* the "Export 2D frames" cell, run one after the other on an output        *)
(* directory that survives between runs.                                    *)
(*                                                                          *)
(* SpecMic: one run of the mic command on one stack (the corrector).        *)
(*                                                                          *)
(* SpecModelNb: the notebook that post-processes a CIDRE model (swap axes,  *)
(* crop, average along x, replicate, swap back, write v.tif and z.tif).     *)
(*                                                                          *)
(* Arrays are records [shape, flat, dtype]: flat holds the elements in      *)
(* C order, as numpy stores them.  Channel and z indices are 0-based as in  *)
(* the code; TLA+ sequences are 1-based, so entry c of a Python list is     *)
(* element c + 1 of the sequence that models it.                            *)
(***************************************************************************)
EXTENDS Integers, Sequences, FiniteSets, TLC

\* ------------------------------------------------------------ bounds
MaxFiles == 3      \* entries of the source directory
MaxZ == 2          \* z-slices of one stack
MaxRuns == 2       \* runs of the notebook on the same output directory
MaxDim == 3        \* rows and columns of a CIDRE model

\* ------------------------------------------------------------ configuration cells
bg_lvl == 500
bg_rel_thr == <<333, 1000>>      \* 0.333 as numerator, denominator
mean_rel_thr == <<5, 1000>>      \* 0.005 as numerator, denominator
formats == <<"_l.tiff">>
SENTINEL == 0 - 1

\* the wavelength specs a user may set in the "I/O image paths" cell
WvConfigs ==
    { [int |-> 638],
      [tuple |-> <<488, 561>>],
      [tuple |-> <<SENTINEL, 488>>],
      [tuple |-> <<488, SENTINEL>>],
      [tuple |-> <<SENTINEL, 488, 561>>] }

Wavelengths == {488, 561, 638}

\* The settings of the "Export options" cell that are checked, as
\* [max_dset_size, x_shp_out, z_strd_um, px_sz_z]: every pair of values of two
\* settings occurs in one of them.
\*   max_dset_size is in bytes.  The notebook ships 100e9; the stacks here are
\*     a few bytes large, so the budgets are too (12 bytes are two uint16 slices).
\*   x_shp_out: <<>> is None, <<w>> forces the output x-size w.
\*   z_strd_um and px_sz_z are in tenths of a micrometre (the notebook ships
\*     17 and 3.4): 3.4 / 3.4 gives a stride of 1, 5.0 / 3.4 a stride of 2.
ExportOptions ==
    { [max_dset_size |-> 1,  x_shp_out |-> <<>>,  z_strd_um |-> 34, px_sz_z |-> 34],
      [max_dset_size |-> 1,  x_shp_out |-> <<3>>, z_strd_um |-> 50, px_sz_z |-> 34],
      [max_dset_size |-> 1,  x_shp_out |-> <<2>>, z_strd_um |-> 34, px_sz_z |-> 34],
      [max_dset_size |-> 12, x_shp_out |-> <<>>,  z_strd_um |-> 50, px_sz_z |-> 34],
      [max_dset_size |-> 12, x_shp_out |-> <<3>>, z_strd_um |-> 34, px_sz_z |-> 34],
      [max_dset_size |-> 12, x_shp_out |-> <<2>>, z_strd_um |-> 50, px_sz_z |-> 34] }

\* ------------------------------------------------------------ numpy arrays
Arr(shape, flat, dtype) == [shape |-> shape, flat |-> flat, dtype |-> dtype]

ItemSize(dtype) ==
    CASE dtype = "uint8" -> 1
      [] dtype = "uint16" -> 2
      [] dtype = "float64" -> 8

IInfoMax(dtype) ==
    CASE dtype = "uint8" -> 255
      [] dtype = "uint16" -> 65535

RECURSIVE Prod(_)
Prod(s) == IF s = <<>> THEN 1 ELSE Head(s) * Prod(Tail(s))

RECURSIVE SumSeq(_)
SumSeq(s) == IF s = <<>> THEN 0 ELSE Head(s) + SumSeq(Tail(s))

Front(s) == SubSeq(s, 1, Len(s) - 1)

Size(a) == Len(a.flat)

NDim(a) == Len(a.shape)

\* a[c, :, :]: three indices, legal on a 3D array only
CanIndexFirst(a, c) == NDim(a) = 3 /\ c < a.shape[1]

IndexFirst(a, c) ==
    LET n == a.shape[2] * a.shape[3]
    IN  Arr(Tail(a.shape), SubSeq(a.flat, c * n + 1, (c + 1) * n), a.dtype)

\* a[..., c]: the last axis is indexed, whatever the number of axes
CanIndexLast(a, c) == NDim(a) >= 1 /\ c < a.shape[NDim(a)]

IndexLast(a, c) ==
    LET d == a.shape[NDim(a)]
        m == Size(a) \div d
    IN  Arr(Front(a.shape), [i \in 1..m |-> a.flat[(i - 1) * d + c + 1]], a.dtype)

\* slc[np.newaxis, ...] and slc[..., np.newaxis]
NewAxisFirst(a) == Arr(<<1>> \o a.shape, a.flat, a.dtype)

NewAxisLast(a) == Arr(a.shape \o <<1>>, a.flat, a.dtype)

\* ------------------------------------------------------------ inclusion criteria
CountGreater(a, lvl) == Cardinality({i \in 1..Size(a) : a.flat[i] > lvl})

NonZero(a) == SelectSeq(a.flat, LAMBDA x : x # 0)

\* np.count_nonzero(slc > bg_lvl) / np.size(slc) > bg_rel_thr
BgTest(a) == CountGreater(a, bg_lvl) * bg_rel_thr[2] > bg_rel_thr[1] * Size(a)

\* np.mean(slc[slc != 0]) > mean_rel_thr * img_max; the mean of no pixel is nan,
\* and nan > x is False
MeanTest(a, dtype_max) ==
    /\ NonZero(a) # <<>>
    /\ SumSeq(NonZero(a)) * mean_rel_thr[2] > mean_rel_thr[1] * dtype_max * Len(NonZero(a))

\* the test with "or" for "and": C1 depends on the conjunction
InclusionTest_or(a, dtype_max) == BgTest(a) \/ MeanTest(a, dtype_max)

InclusionTest(a, dtype_max) == BgTest(a) /\ MeanTest(a, dtype_max)

\* ------------------------------------------------------------ skimage.transform.resize
MinOf(s) == CHOOSE x \in {s[i] : i \in 1..Len(s)} : \A j \in 1..Len(s) : x <= s[j]

MaxOf(s) == CHOOSE x \in {s[i] : i \in 1..Len(s)} : \A j \in 1..Len(s) : x >= s[j]

\* width of the array as resize sees it: a 1D array is reshaped to (n, 1)
WidthOf(a) == IF NDim(a) >= 2 THEN a.shape[2] ELSE 1

\* The result is a float64 array of shape (slc.shape[0], x_shp_out).  With the
\* width unchanged every scale factor is 1 and the values are kept; otherwise
\* the interpolated values lie between the minimum and the maximum of the
\* input (preserve_range), and the extremes stand for them here.
ResizeResults(a, w) ==
    LET shp == <<a.shape[1], w>>
    IN  IF WidthOf(a) = w
        THEN {Arr(shp, a.flat, "float64")}
        ELSE {Arr(shp, f, "float64") :
                f \in {[i \in 1..(a.shape[1] * w) |-> v] : v \in {MinOf(a.flat), MaxOf(a.flat)}}}

\* ------------------------------------------------------------ files and folders
\* a file name is its stem and its suffix: 7.tiff is [stem |-> 7, suffix |-> ".tiff"]
FileName(stem, suffix) == [stem |-> stem, suffix |-> suffix]

\* f'{num_slc[c]}.tiff'
TiffName(n) == FileName(n, ".tiff")

Lower(s) ==
    CASE s = ".TIF" -> ".tif"
      [] s = ".TIFF" -> ".tiff"
      [] s = "_L.TIFF" -> "_l.tiff"
      [] s = "_R.TIFF" -> "_r.tiff"
      [] OTHER -> s

\* file.suffix.lower() in ['.tif', '.tiff']
IsTiff(file) == Lower(file.suffix) \in {".tif", ".tiff"}

CountTiff(folder) == Cardinality({file \in folder : IsTiff(file)})

\* files a user or another tool may have left in an output folder
ForeignFiles == {FileName(0, ".txt"), FileName(0, ".TIF")}

\* the output folders that exist before the first run: the one of 488 nm, with
\* the foreign files in it
OldDirs == {488}

\* the entries of the source directory: the end of the path and whether the
\* entry is a regular file
SourceTails == <<"_l.tiff", "_L.TIFF", "_r.tiff", "_l.tiff">>

SourceEntry(i) ==
    [id |-> i,
     tail |-> SourceTails[((i - 1) % Len(SourceTails)) + 1],
     isfile |-> (i % Len(SourceTails)) # 0]

\* str(dirpath).lower().endswith(fmt)
EndsWith(entry, fmt) == Lower(entry.tail) = fmt

IsStack(entry) ==
    entry.isfile /\ \E k \in 1..Len(formats) : EndsWith(entry, formats[k])

\* random.shuffle: any order of the list
Shuffles(S) ==
    {s \in [1..Cardinality(S) -> S] : \A i, j \in 1..Cardinality(S) : s[i] = s[j] => i = j}

\* ceil(z_strd_um / px_sz_z)
Ceil(a, b) == (a + b - 1) \div b

\* ------------------------------------------------------------ stacks
DTypes == {"uint8", "uint16"}

\* (Y, X) of every frame
SliceShape == <<1, 3>>

\* the 2D slices a stack may hold at one (z, c), as flat pixel rows
SlicePool(dtype) ==
    IF dtype = "uint16"
    THEN {<<0, 501, 400>>, <<501, 1, 1>>, <<500, 500, 500>>}
    ELSE {<<0, 255, 200>>}

NoArr == Arr(<<>>, <<>>, "none")

NoFile == [id |-> 0, tail |-> "", isfile |-> FALSE]

NoImg == [shape |-> <<>>, dtype |-> "none", file |-> NoFile]

\* the frame img[z, ...] of a stack that holds the 2D slices sl[1..C]
FrameChFirst(sl, dtype) ==
    LET n == Prod(SliceShape)
    IN  Arr(<<Len(sl)>> \o SliceShape,
            [i \in 1..(Len(sl) * n) |-> sl[((i - 1) \div n) + 1][((i - 1) % n) + 1]],
            dtype)

FrameChLast(sl, dtype) ==
    LET n == Prod(SliceShape)
        C == Len(sl)
    IN  Arr(SliceShape \o <<C>>,
            [i \in 1..(C * n) |-> sl[((i - 1) % C) + 1][((i - 1) \div C) + 1]],
            dtype)

FrameGray(s, dtype) == Arr(SliceShape, s, dtype)

\* ------------------------------------------------------------ state
VARIABLES
    wv, ch_first, max_dset_size, x_shp_out, z_strd_um, px_sz_z,  \* configuration
    source,        \* entries of the source directory
    dirs, files,   \* output folders that exist (by wavelength) and their files
    pc, run, err,
    num_slc, wavedirs, stack_lst,
    ds_size, num_out, z_strd, img, img_max, z, c, slc,
    summary,
    frame,         \* img[z, ...] as the z loop read it, channel axis added
    startFiles,    \* files when the run started
    startCnt,      \* num_slc when the run started
    written,       \* per channel, the files written in this run, in order
    examined,      \* the channels whose slice was tested at the current z
    last,          \* what the latest channel iteration did
    \* the mic command
    mic,           \* where the command stands
    mode, wavelength, field,   \* --mode, --wavelength, the models under --field
    stack,         \* the input stack, one 2D array per channel
    models,        \* per channel, the model resized to the stack's (Y, X)
    chan,          \* the channel the correction loop is at (0-based)
    corrected,     \* the corrected stack, one 2D array per channel
    \* the model notebook
    nb,            \* the cell to run next
    nb_v, nb_z,    \* the flat-field and the dark-field model (v and z in the notebook)
    mat_shape,     \* the shape of the model in the .mat files
    orig_shape, crop_s, crop_e,
    v_tif, z_tif   \* the arrays written to v.tif and z.tif

config == <<wv, ch_first, max_dset_size, x_shp_out, z_strd_um, px_sz_z, source>>

cell4 == <<num_slc, wavedirs, stack_lst, startFiles, startCnt>>

loop == <<ds_size, num_out, z_strd, img, img_max, z, c, slc, frame>>

curation == <<config, dirs, files, pc, run, err, cell4, loop, summary, written, examined, last>>

corrector == <<mic, mode, wavelength, field, stack, models, chan, corrected>>

modelnb == <<nb, nb_v, nb_z, mat_shape, orig_shape, crop_s, crop_e, v_tif, z_tif>>

vars == <<curation, corrector, modelnb>>

\* the mic command is not running
MicIdle ==
    /\ mic = "idle"
    /\ mode = 0
    /\ wavelength = <<>>
    /\ field = <<>>
    /\ stack = <<>>
    /\ models = <<>>
    /\ chan = 0
    /\ corrected = <<>>

\* the model notebook is not running
ModelNbIdle ==
    /\ nb = "idle"
    /\ nb_v = NoArr
    /\ nb_z = NoArr
    /\ mat_shape = <<>>
    /\ orig_shape = <<>>
    /\ crop_s = 0
    /\ crop_e = 0
    /\ v_tif = NoArr
    /\ z_tif = NoArr

NoLast ==
    [kind |-> "none", z |-> 0, c |-> 0, tested |-> NoArr, dir |-> 0,
     name |-> TiffName(0), arr |-> NoArr, before |-> 0, brk |-> FALSE]

WV == wv.tuple

ch_ax == IF ch_first THEN 0 ELSE 2

num_stk == Len(stack_lst)

\* the channel loop's range(slc.shape[ch_ax]), evaluated on the frame
NCh == frame.shape[ch_ax + 1]

Init ==
    /\ wv \in WvConfigs
    /\ ch_first \in BOOLEAN
    /\ \E o \in ExportOptions :
        /\ max_dset_size = o.max_dset_size
        /\ x_shp_out = o.x_shp_out
        /\ z_strd_um = o.z_strd_um
        /\ px_sz_z = o.px_sz_z
    /\ source = {SourceEntry(i) : i \in 1..MaxFiles}
    /\ dirs = OldDirs
    /\ files = [w \in Wavelengths |-> IF w \in OldDirs THEN ForeignFiles ELSE {}]
    /\ pc = "cfg"
    /\ run = 1
    /\ err = ""
    /\ num_slc = <<>>
    /\ wavedirs = <<>>
    /\ stack_lst = <<>>
    /\ ds_size = <<>>
    /\ num_out = 0
    /\ z_strd = 0
    /\ img = NoImg
    /\ img_max = 0
    /\ z = 0
    /\ c = 0
    /\ slc = NoArr
    /\ summary = <<>>
    /\ frame = NoArr
    /\ startFiles = files
    /\ startCnt = <<>>
    /\ written = <<>>
    /\ examined = {}
    /\ last = NoLast
    /\ MicIdle
    /\ ModelNbIdle

\* ------------------------------------------------------------ "Evaluate I/O directory content"
\* isinstance(wv, tuple) or isinstance(wv, list), else wv = (wv,)
WrapWv(raw) == IF "tuple" \in DOMAIN raw THEN raw.tuple ELSE <<raw.int>>

\* a counter that starts from 0 whatever the folders hold: C3 depends on the
\* count of the files
InitNumSlc_reset(w, ds, fl) == [i \in 1..Len(w) |-> 0]

\* num_slc after the loop over enumerate(wv), on folders fl of which ds exist
InitNumSlc(w, ds, fl) ==
    [i \in 1..Len(w) |->
        IF w[i] # SENTINEL /\ w[i] \in ds THEN CountTiff(fl[w[i]]) ELSE 0]

\* wavedirs: one entry appended per wavelength that is not the sentinel
InitWavedirs(w) == SelectSeq(w, LAMBDA x : x # SENTINEL)

EvalIODir ==
    /\ pc = "cfg"
    /\ LET w == WrapWv(wv)
       IN  /\ wv' = [tuple |-> w]
           /\ num_slc' = InitNumSlc(w, dirs, files)
           /\ startCnt' = InitNumSlc(w, dirs, files)
           /\ wavedirs' = InitWavedirs(w)
           /\ dirs' = dirs \cup {w[i] : i \in {j \in 1..Len(w) : w[j] # SENTINEL}}
           /\ written' = [i \in 1..Len(w) |-> <<>>]
    /\ stack_lst' \in Shuffles({e \in source : IsStack(e)})
    /\ startFiles' = files
    /\ pc' = "ready"
    /\ UNCHANGED <<corrector, modelnb, ch_first, max_dset_size, x_shp_out, z_strd_um, px_sz_z, source,
                   files, run, err, loop, summary, examined, last>>

\* ------------------------------------------------------------ "Export 2D frames"
ExportStart ==
    /\ pc = "ready"
    /\ ds_size' = [i \in 1..Len(WV) |-> 0]
    /\ num_out' = 1
    /\ z_strd' = Ceil(z_strd_um, px_sz_z)
    /\ pc' = "stack"
    /\ UNCHANGED <<corrector, modelnb, config, dirs, files, run, err, cell4, img, img_max, z, c, slc, frame,
                   summary, written, examined, last>>

\* the shapes tiff.imread may return: a stack with one channel per entry of wv,
\* laid out as ch_first says, and a grayscale stack (Z, Y, X) when wv has one
\* entry
ImgShapes ==
    {IF ch_first THEN <<nz, Len(WV)>> \o SliceShape
                 ELSE <<nz>> \o SliceShape \o <<Len(WV)>> : nz \in 1..MaxZ}
        \cup {<<nz>> \o SliceShape : nz \in (IF Len(WV) = 1 THEN 1..MaxZ ELSE {})}

\* for f in stack_lst: img = tiff.imread(f); img_max = np.iinfo(img.dtype).max
ReadStack ==
    /\ pc = "stack"
    /\ num_out <= num_stk
    /\ \E shp \in ImgShapes, dt \in DTypes :
        /\ img' = [shape |-> shp, dtype |-> dt, file |-> stack_lst[num_out]]
        /\ img_max' = IInfoMax(dt)
    /\ z' = 0
    /\ pc' = "frame"
    /\ UNCHANGED <<corrector, modelnb, config, dirs, files, run, err, cell4, ds_size, num_out, z_strd, c, slc,
                   frame, summary, written, examined, last>>

\* tiff.imread raises on an unreadable or malformed file: nothing catches it
ReadFails ==
    /\ pc = "stack"
    /\ num_out <= num_stk
    /\ pc' = "crashed"
    /\ err' = "imread"
    /\ UNCHANGED <<corrector, modelnb, config, dirs, files, run, cell4, loop, summary, written, examined, last>>

\* the 2D slices channel i (1-based) of a frame may hold.  The loops never read
\* a channel whose wavelength is the sentinel, so one slice stands for it.
ChannelPool(i, dtype) ==
    IF WV[i] = SENTINEL
    THEN {CHOOSE s \in SlicePool(dtype) : TRUE}
    ELSE SlicePool(dtype)

\* the values img[z, ...] may hold
Frames ==
    IF Len(img.shape) = 3
    THEN {FrameGray(s, img.dtype) : s \in ChannelPool(1, img.dtype)}
    ELSE {IF ch_first THEN FrameChFirst(sl, img.dtype) ELSE FrameChLast(sl, img.dtype) :
            sl \in {t \in [1..Len(WV) -> SlicePool(img.dtype)] :
                        \A i \in 1..Len(WV) : t[i] \in ChannelPool(i, img.dtype)}}

\* add channel axis when missing
AddAxis(a) ==
    IF NDim(a) = 2
    THEN IF ch_first THEN NewAxisFirst(a) ELSE NewAxisLast(a)
    ELSE a

\* for z in range(0, img.shape[0], z_strd): slc = img[z, ...]
ReadFrame ==
    /\ pc = "frame"
    /\ z < img.shape[1]
    /\ \E fr \in Frames :
        /\ slc' = AddAxis(fr)
        /\ frame' = AddAxis(fr)
    /\ c' = 0
    /\ pc' = "chan"
    /\ examined' = {}
    /\ last' = NoLast
    /\ UNCHANGED <<corrector, modelnb, config, dirs, files, run, err, cell4, ds_size, num_out, z_strd, img,
                   img_max, z, summary, written>>

\* the z loop is over: num_out += 1.  img, img_max, z, c and slc are dead from
\* here on (the next iteration assigns each before it reads it), so they are
\* cleared.
EndStack ==
    /\ pc = "frame"
    /\ z >= img.shape[1]
    /\ num_out' = num_out + 1
    /\ pc' = "stack"
    /\ img' = NoImg
    /\ img_max' = 0
    /\ z' = 0
    /\ c' = 0
    /\ slc' = NoArr
    /\ frame' = NoArr
    /\ examined' = {}
    /\ last' = NoLast
    /\ UNCHANGED <<corrector, modelnb, config, dirs, files, run, err, cell4, ds_size, z_strd, summary, written>>

\* slc[c, :, :] if ch_first else slc[..., c]
CanExtract(a, ch) == IF ch_first THEN CanIndexFirst(a, ch) ELSE CanIndexLast(a, ch)

Extract(a, ch) == IF ch_first THEN IndexFirst(a, ch) ELSE IndexLast(a, ch)

\* np.all(ds_size) >= max_dset_size: np.all gives one boolean, compared as 0 or 1
BreakTest(ds) ==
    (IF \A i \in 1..Len(ds) : ds[i] # 0 THEN 1 ELSE 0) >= max_dset_size

\* where the loops stand after the iteration for channel c: brk leaves the
\* channel loop, and so does its last iteration
Advance(brk) ==
    IF brk \/ c + 1 >= NCh
    THEN pc' = "frame" /\ z' = z + z_strd /\ c' = c
    ELSE pc' = "chan" /\ z' = z /\ c' = c + 1

\* if wv[c] > 0 fails
SkipChannel ==
    /\ pc = "chan"
    /\ ~(WV[c + 1] > 0)
    /\ Advance(FALSE)
    /\ last' = [NoLast EXCEPT !.kind = "skip", !.z = z, !.c = c]
    /\ UNCHANGED <<corrector, modelnb, config, dirs, files, run, err, cell4, ds_size, num_out, z_strd, img,
                   img_max, slc, frame, summary, written, examined>>

\* the index expression raises IndexError
ExtractFails ==
    /\ pc = "chan"
    /\ WV[c + 1] > 0
    /\ ~CanExtract(slc, c)
    /\ pc' = "crashed"
    /\ err' = "IndexError"
    /\ last' = [NoLast EXCEPT !.kind = "crash", !.z = z, !.c = c]
    /\ UNCHANGED <<corrector, modelnb, config, dirs, files, run, cell4, loop, summary, written, examined>>

\* the slice fails the inclusion test
RejectSlice ==
    /\ pc = "chan"
    /\ WV[c + 1] > 0
    /\ CanExtract(slc, c)
    /\ ~InclusionTest(Extract(slc, c), img_max)
    /\ slc' = Extract(slc, c)
    /\ examined' = examined \cup {c}
    /\ Advance(BreakTest(ds_size))
    /\ last' = [NoLast EXCEPT !.kind = "reject", !.z = z, !.c = c,
                              !.tested = Extract(slc, c), !.before = ds_size[c + 1],
                              !.brk = BreakTest(ds_size)]
    /\ UNCHANGED <<corrector, modelnb, config, dirs, files, run, err, cell4, ds_size, num_out, z_strd, img,
                   img_max, frame, summary, written>>

\* if x_shp_out is not None: slc = resize(...)
Resized(a) == IF x_shp_out = <<>> THEN {a} ELSE ResizeResults(a, x_shp_out[1])

\* a budget that counts pixels for bytes: C16 depends on the item size
AddSize_pixels(ds, ch, out) == [ds EXCEPT ![ch + 1] = @ + Size(out)]

\* ds_size[c] += slc.itemsize * slc.size
AddSize(ds, ch, out) == [ds EXCEPT ![ch + 1] = @ + ItemSize(out.dtype) * Size(out)]

\* a counter that is not incremented: C8 depends on the increment
IncSlc_stuck(ns, ch) == ns

\* num_slc[c] += 1
IncSlc(ns, ch) == [ns EXCEPT ![ch + 1] = @ + 1]

\* the slice passes: resize, imwrite, update ds_size and num_slc
ExportSlice ==
    /\ pc = "chan"
    /\ WV[c + 1] > 0
    /\ CanExtract(slc, c)
    /\ InclusionTest(Extract(slc, c), img_max)
    /\ c < Len(wavedirs)
    /\ \E out \in Resized(Extract(slc, c)) :
        LET dir == wavedirs[c + 1]
            name == TiffName(num_slc[c + 1])
            ds == AddSize(ds_size, c, out)
        IN  /\ slc' = out
            /\ files' = [files EXCEPT ![dir] = @ \cup {name}]
            /\ ds_size' = ds
            /\ num_slc' = IncSlc(num_slc, c)
            /\ examined' = examined \cup {c}
            /\ written' = [written EXCEPT ![c + 1] =
                              Append(@, [dir |-> dir, name |-> name,
                                         nbytes |-> ItemSize(out.dtype) * Size(out)])]
            /\ Advance(BreakTest(ds))
            /\ last' = [kind |-> "export", z |-> z, c |-> c, tested |-> Extract(slc, c),
                        dir |-> dir, name |-> name, arr |-> out,
                        before |-> ds_size[c + 1], brk |-> BreakTest(ds)]
    /\ UNCHANGED <<corrector, modelnb, config, dirs, run, err, wavedirs, stack_lst, startFiles, startCnt,
                   num_out, z_strd, img, img_max, frame, summary>>

\* the slice passes, and wavedirs[c] raises IndexError: wavedirs is shorter than wv
WavedirFails ==
    /\ pc = "chan"
    /\ WV[c + 1] > 0
    /\ CanExtract(slc, c)
    /\ InclusionTest(Extract(slc, c), img_max)
    /\ ~(c < Len(wavedirs))
    /\ \E out \in Resized(Extract(slc, c)) : slc' = out
    /\ examined' = examined \cup {c}
    /\ pc' = "crashed"
    /\ err' = "IndexError"
    /\ last' = [NoLast EXCEPT !.kind = "crash", !.z = z, !.c = c,
                              !.tested = Extract(slc, c)]
    /\ UNCHANGED <<corrector, modelnb, config, dirs, files, run, cell4, ds_size, num_out, z_strd, img, img_max,
                   z, c, frame, summary, written>>

\* print exported dataset information: one line per wavelength that is not the sentinel
SummaryLines ==
    LET idx == SelectSeq([i \in 1..Len(WV) |-> i], LAMBDA i : WV[i] # SENTINEL)
    IN  [k \in 1..Len(idx) |-> [c |-> idx[k] - 1, w |-> WV[idx[k]], images |-> num_slc[idx[k]]]]

Summary ==
    /\ pc = "stack"
    /\ num_out > num_stk
    /\ summary' = SummaryLines
    /\ pc' = "done"
    /\ UNCHANGED <<corrector, modelnb, config, dirs, files, run, err, cell4, loop, written, examined, last>>

\* the user interrupts the kernel while the export cell runs.  Nothing reads
\* the loop variables after that, so they are cleared.
Interrupt ==
    /\ pc \in {"stack", "frame", "chan"}
    /\ pc' = "crashed"
    /\ err' = "KeyboardInterrupt"
    /\ img' = NoImg
    /\ img_max' = 0
    /\ z' = 0
    /\ c' = 0
    /\ slc' = NoArr
    /\ frame' = NoArr
    /\ examined' = {}
    /\ last' = NoLast
    /\ UNCHANGED <<corrector, modelnb, config, dirs, files, run, cell4, ds_size, num_out, z_strd, summary,
                   written>>

\* the notebook is run again on the same output directory
Rerun ==
    /\ pc \in {"done", "crashed"}
    /\ run < MaxRuns
    /\ run' = run + 1
    /\ pc' = "cfg"
    /\ err' = ""
    /\ num_slc' = <<>>
    /\ wavedirs' = <<>>
    /\ stack_lst' = <<>>
    /\ ds_size' = <<>>
    /\ num_out' = 0
    /\ z_strd' = 0
    /\ img' = NoImg
    /\ img_max' = 0
    /\ z' = 0
    /\ c' = 0
    /\ slc' = NoArr
    /\ summary' = <<>>
    /\ frame' = NoArr
    /\ startFiles' = files
    /\ startCnt' = <<>>
    /\ written' = <<>>
    /\ examined' = {}
    /\ last' = NoLast
    /\ UNCHANGED <<corrector, modelnb, config, dirs, files>>

Next ==
    \/ EvalIODir
    \/ ExportStart
    \/ ReadStack
    \/ ReadFails
    \/ ReadFrame
    \/ EndStack
    \/ SkipChannel
    \/ ExtractFails
    \/ RejectSlice
    \/ ExportSlice
    \/ WavedirFails
    \/ Summary
    \/ Interrupt
    \/ Rerun

Spec == Init /\ [][Next]_vars

\* the curation notebook is not running
CurationIdle ==
    /\ wv = [int |-> 638]
    /\ ch_first = FALSE
    /\ max_dset_size = 1
    /\ x_shp_out = <<>>
    /\ z_strd_um = 34
    /\ px_sz_z = 34
    /\ source = {}
    /\ dirs = {}
    /\ files = [w \in Wavelengths |-> {}]
    /\ pc = "idle"
    /\ run = 1
    /\ err = ""
    /\ num_slc = <<>>
    /\ wavedirs = <<>>
    /\ stack_lst = <<>>
    /\ ds_size = <<>>
    /\ num_out = 0
    /\ z_strd = 0
    /\ img = NoImg
    /\ img_max = 0
    /\ z = 0
    /\ c = 0
    /\ slc = NoArr
    /\ summary = <<>>
    /\ frame = NoArr
    /\ startFiles = files
    /\ startCnt = <<>>
    /\ written = <<>>
    /\ examined = {}
    /\ last = NoLast

\* ------------------------------------------------------------ the mic command
\* One run of
\*   mic <stack> --field <models> --objective <name> --wavelength <w...> --mode <m>
\* on one stack.  Numbers that are floating-point in the tool are rationals
\* <<numerator, denominator>> here, with a positive denominator.
Modes == {0, 1}          \* 0: zero-light-preserved, 1: dynamic-range-adjusted

Rat(n, d) == IF d < 0 THEN <<0 - n, 0 - d>> ELSE <<n, d>>

\* s: the mean of v over the field
Scale(fv) == <<SumSeq(fv.flat), Size(fv)>>

\* a correction that forgets the dark-field: C11 depends on the subtraction
ZeroLightPreserved_nodark(x, fvv, dzv, s) == Rat(x * s[1], s[2] * fvv)

\* (x - z) * (s / v)
ZeroLightPreserved(x, fvv, dzv, s) == Rat((x - dzv) * s[1], s[2] * fvv)

\* a correction that does not add the dark-field back: C12 depends on the sum
DynamicRangeAdjusted_nooffset(x, fvv, dzv, s) == Rat((x - dzv) * s[1], s[2] * fvv)

\* (x - z) * (s / v) + z
DynamicRangeAdjusted(x, fvv, dzv, s) ==
    Rat((x - dzv) * s[1] + dzv * s[2] * fvv, s[2] * fvv)

\* the result clipped to the range of the element type and cast back to it
Cast(q, dtype) ==
    IF q[1] <= 0 THEN 0
    ELSE IF q[1] >= IInfoMax(dtype) * q[2] THEN IInfoMax(dtype)
    ELSE q[1] \div q[2]

CorrectPixel(x, fvv, dzv, s, md, dtype) ==
    Cast(IF md = 0 THEN ZeroLightPreserved(x, fvv, dzv, s)
                   ELSE DynamicRangeAdjusted(x, fvv, dzv, s), dtype)

\* one channel corrected with the model mdl, already of the channel's shape
CorrectChannel(a, mdl, md) ==
    Arr(a.shape,
        [i \in 1..Size(a) |->
            CorrectPixel(a.flat[i], mdl.v.flat[i], mdl.z.flat[i], Scale(mdl.v), md, a.dtype)],
        a.dtype)

\* the models of one objective, all of one shape; 561 nm has none
ModelShape == <<2, 2>>

ModelWavelengths == {488, 618}

Rotate(sq, k) == [i \in 1..Len(sq) |-> sq[((i - 1 + k) % Len(sq)) + 1]]

Rotations(sq) == {Rotate(sq, k) : k \in 0..(Len(sq) - 1)}

\* the flat-fields and dark-fields a model may hold, as flat (Y, X) arrays
FlatFields == {<<50, 100, 200, 100>>, <<100, 100, 100, 100>>, <<0 - 50, 100, 200, 100>>}

DarkFields == Rotations(<<0, 10, 12, 3>>)

Model(fv, dz) ==
    [v |-> Arr(ModelShape, fv, "float64"), z |-> Arr(ModelShape, dz, "float64")]

NoModel == [v |-> NoArr, z |-> NoArr]

\* the (Y, X) shapes of the stacks: the models' shape and smaller (binned) ones
StackShapes == {<<2, 2>>, <<1, 2>>, <<1, 1>>}

\* the pixels of one channel of the stack
Pixels(shape) ==
    {SubSeq(r, 1, Prod(shape)) : r \in Rotations(<<0, 10, 12, 255>>)}

\* The ways a model is resized to a shape: the values of a sample of the model
\* (nearest neighbour), or values between its extremes, for which the extremes
\* stand.  A model of the shape asked for is left as it is.
ResizeMethods == {"nearest", "min", "max"}

\* a resize that leaves the model as it is: C14 depends on the resize
ResizeModel_asis(a, shape, how) == a

ResizeModel(a, shape, how) ==
    IF a.shape = shape THEN a
    ELSE Arr(shape,
             [i \in 1..Prod(shape) |->
                CASE how = "min" -> MinOf(a.flat)
                  [] how = "max" -> MaxOf(a.flat)
                  [] OTHER ->
                       LET y == (i - 1) \div shape[2]
                           x == (i - 1) % shape[2]
                           sy == (y * a.shape[1]) \div shape[1]
                           sx == (x * a.shape[2]) \div shape[2]
                       IN  a.flat[sy * a.shape[2] + sx + 1]],
             a.dtype)

\* the command lines: one --wavelength entry per channel of the stack
WavelengthArgs ==
    {<<488>>, <<618, 488>>, <<618, SENTINEL>>, <<SENTINEL, 488>>, <<561>>}

InitMic ==
    /\ CurationIdle
    /\ ModelNbIdle
    /\ mic = "args"
    /\ mode \in Modes
    /\ wavelength \in WavelengthArgs
    /\ \E fv \in FlatFields, dz \in DarkFields :
          field = [w \in ModelWavelengths |->
                      IF w = 488 THEN Model(fv, dz) ELSE Model(Rotate(fv, 1), Rotate(dz, 1))]
    /\ \E shp \in StackShapes, dt \in DTypes :
          stack \in [1..Len(wavelength) -> {Arr(shp, f, dt) : f \in Pixels(shp)}]
    /\ models = <<>>
    /\ chan = 0
    /\ corrected = <<>>

\* the wavelengths of the command line that need a model
Needed == {wavelength[k] : k \in {j \in 1..Len(wavelength) : wavelength[j] # SENTINEL}}

\* every needed model is there: they are loaded and resized to the stack's (Y, X)
MicLoad ==
    /\ mic = "args"
    /\ Needed \subseteq DOMAIN field
    /\ \E how \in ResizeMethods :
          models' = [k \in 1..Len(wavelength) |->
                        IF wavelength[k] = SENTINEL THEN NoModel
                        ELSE [v |-> ResizeModel(field[wavelength[k]].v, stack[k].shape, how),
                              z |-> ResizeModel(field[wavelength[k]].z, stack[k].shape, how)]]
    /\ chan' = 0
    /\ corrected' = <<>>
    /\ mic' = "correct"
    /\ UNCHANGED <<curation, modelnb, mode, wavelength, field, stack>>

\* a model is missing: the run ends with an error
MicMissingModel ==
    /\ mic = "args"
    /\ ~(Needed \subseteq DOMAIN field)
    /\ mic' = "failed"
    /\ UNCHANGED <<curation, modelnb, mode, wavelength, field, stack, models, chan, corrected>>

\* a skipped channel that is blanked: C13 depends on the copy of the input
CorrectedChannel_blank(k) ==
    IF wavelength[k] = SENTINEL
    THEN Arr(stack[k].shape, [i \in 1..Size(stack[k]) |-> 0], stack[k].dtype)
    ELSE CorrectChannel(stack[k], models[k], mode)

\* channel k (1-based) of the corrected stack
CorrectedChannel(k) ==
    IF wavelength[k] = SENTINEL
    THEN stack[k]
    ELSE CorrectChannel(stack[k], models[k], mode)

MicCorrect ==
    /\ mic = "correct"
    /\ chan < Len(stack)
    /\ corrected' = Append(corrected, CorrectedChannel(chan + 1))
    /\ chan' = chan + 1
    /\ UNCHANGED <<curation, modelnb, mic, mode, wavelength, field, stack, models>>

\* the corrected stack is written
MicWrite ==
    /\ mic = "correct"
    /\ chan >= Len(stack)
    /\ mic' = "done"
    /\ UNCHANGED <<curation, modelnb, mode, wavelength, field, stack, models, chan, corrected>>

NextMic ==
    \/ MicLoad
    \/ MicMissingModel
    \/ MicCorrect
    \/ MicWrite

SpecMic == InitMic /\ [][NextMic]_vars

\* ------------------------------------------------------------ the model notebook
\* np.swapaxes(a, 0, 1) of a 2D array
SwapAxes(a) ==
    LET R == a.shape[1]
        C == a.shape[2]
    IN  Arr(<<C, R>>,
            [i \in 1..(R * C) |-> a.flat[((i - 1) % R) * C + ((i - 1) \div R) + 1]],
            a.dtype)

\* where the bound b of a slice falls in a sequence of n elements
SliceBound(b, n) ==
    IF b < 0 THEN (IF b + n < 0 THEN 0 ELSE b + n)
    ELSE (IF b > n THEN n ELSE b)

\* a[:, s:e]
CropColumns(a, s, e) ==
    LET C == a.shape[2]
        lo == SliceBound(s, C)
        hi == SliceBound(e, C)
        w == IF hi > lo THEN hi - lo ELSE 0
    IN  Arr(<<a.shape[1], w>>,
            [i \in 1..(a.shape[1] * w) |-> a.flat[((i - 1) \div w) * C + lo + ((i - 1) % w) + 1]],
            a.dtype)

\* np.mean(a, axis=1): per row, the mean as <<sum, count>>; of no column, nan
MeanAxis1(a) ==
    LET C == a.shape[2]
    IN  Arr(<<a.shape[1]>>,
            [r \in 1..a.shape[1] |-> <<SumSeq(SubSeq(a.flat, (r - 1) * C + 1, r * C)), C>>],
            a.dtype)

\* np.repeat(a, n, axis=1) of a 2D array
Repeat(a, n) ==
    LET C == a.shape[2]
    IN  Arr(<<a.shape[1], C * n>>,
            [i \in 1..(a.shape[1] * C * n) |->
                a.flat[((i - 1) \div (C * n)) * C + (((i - 1) % (C * n)) \div n) + 1]],
            a.dtype)

\* a replication to the width of the cropped model: C20 depends on the width
\* of the model as loaded
ReplicateCount_cropped(shape, a) == a.shape[2]

\* np.max(orig_shape)
ReplicateCount(shape, a) == MaxOf(shape)

\* np.repeat(np.mean(a, axis=1)[:, np.newaxis], np.max(orig_shape), axis=1)
AverageReplicate(a, shape) ==
    Repeat(NewAxisLast(MeanAxis1(a)), ReplicateCount(shape, a))

\* the arrays scipy.io.loadmat gives for v and z: 2D, of one shape
MatModel(shape, base) ==
    Arr(shape, [i \in 1..Prod(shape) |-> base + i], "float64")

InitModelNb ==
    /\ CurationIdle
    /\ MicIdle
    /\ nb = "view"
    /\ mat_shape \in (1..MaxDim) \X (1..MaxDim)
    /\ nb_v = MatModel(mat_shape, 100)
    /\ nb_z = MatModel(mat_shape, 0)
    /\ orig_shape = <<>>
    /\ crop_s = 0
    /\ crop_e = 0
    /\ v_tif = NoArr
    /\ z_tif = NoArr

\* "View flat-field model": orig_shape = v.shape, swap when rows > columns
NbView ==
    /\ nb = "view"
    /\ orig_shape' = nb_v.shape
    /\ IF nb_v.shape[1] > nb_v.shape[2]
       THEN nb_v' = SwapAxes(nb_v) /\ nb_z' = SwapAxes(nb_z)
       ELSE UNCHANGED <<nb_v, nb_z>>
    /\ nb' = "crop"
    /\ UNCHANGED <<curation, corrector, mat_shape, crop_s, crop_e, v_tif, z_tif>>

\* "Manual crop by visual inspection", with the window the user types in
NbCrop ==
    /\ nb = "crop"
    /\ crop_s' \in (0 - 1)..(MaxDim + 1)
    /\ crop_e' \in (0 - 1)..(MaxDim + 1)
    /\ nb_v' = CropColumns(nb_v, crop_s', crop_e')
    /\ nb_z' = CropColumns(nb_z, crop_s', crop_e')
    /\ nb' = "average"
    /\ UNCHANGED <<curation, corrector, mat_shape, orig_shape, v_tif, z_tif>>

\* "Average and replicate along horizontal x-axis", swap back and write
NbAverage ==
    /\ nb = "average"
    /\ LET av == AverageReplicate(nb_v, orig_shape)
           az == AverageReplicate(nb_z, orig_shape)
           ov == IF orig_shape[1] > orig_shape[2] THEN SwapAxes(av) ELSE av
           oz == IF orig_shape[1] > orig_shape[2] THEN SwapAxes(az) ELSE az
       IN  /\ nb_v' = ov
           /\ nb_z' = oz
           /\ v_tif' = ov
           /\ z_tif' = oz
    /\ nb' = "done"
    /\ UNCHANGED <<curation, corrector, mat_shape, orig_shape, crop_s, crop_e>>

NextModelNb ==
    \/ NbView
    \/ NbCrop
    \/ NbAverage

SpecModelNb == InitModelNb /\ [][NextModelNb]_vars

\* ------------------------------------------------------------ properties
\* the channels (1-based) of the wavelength spec, once wv is a tuple
Channels == IF "tuple" \in DOMAIN wv THEN 1..Len(WV) ELSE {}

\* the files a folder held when the run started that are .tif or .tiff files
TiffFilesAtStart(w) ==
    {file \in startFiles[w] : file.suffix \in {".tif", ".tiff", ".TIF", ".TIFF"}}

\* a slice the inclusion criteria exclude: the fraction of pixels above bg_lvl
\* is at most bg_rel_thr, or the mean of the nonzero pixels is at most
\* mean_rel_thr * dtype_max (a slice without nonzero pixels has no such mean,
\* and its fraction is 0)
Excluded(a, dtype_max) ==
    \/ CountGreater(a, bg_lvl) * bg_rel_thr[2] <= bg_rel_thr[1] * Size(a)
    \/ NonZero(a) = <<>>
    \/ SumSeq(NonZero(a)) * mean_rel_thr[2] <= mean_rel_thr[1] * dtype_max * Len(NonZero(a))

\* C1: a slice that the inclusion criteria exclude is never written: a step that
\* tests an excluded slice leaves every output folder as it was, and a step
\* that changes an output folder has tested a slice that is not excluded.
C1_ExcludedNeverWritten ==
    [][/\ (last'.kind \in {"reject", "export"} /\ last' # last
             /\ Excluded(last'.tested, img_max'))
          => files' = files
       /\ files' # files
          => last'.kind = "export" /\ ~Excluded(last'.tested, img_max')]_vars

\* C1 witness: a slice that passes the background test and fails the mean test
\* was rejected in a run that has exported another slice
C1_Witness ==
    /\ last.kind = "reject"
    /\ BgTest(last.tested)
    /\ \E ch \in Channels : written # <<>> /\ written[ch] # <<>>

\* C2 (as claimed): no slice is exported for a wavelength whose exported bytes
\* had already reached max_dset_size
C2_BudgetStopsExports ==
    last.kind = "export" => last.before < max_dset_size

C4_NoOverwrite ==
    \A ch \in Channels : written # <<>> =>
        \A i \in 1..Len(written[ch]) :
            written[ch][i].name \notin startFiles[written[ch][i].dir]

\* C5 (as claimed): a slice accepted from channel c is written into the folder of
\* wavelength wv[c]
C5_OwnFolder ==
    \A ch \in Channels : written # <<>> =>
        \A i \in 1..Len(written[ch]) : written[ch][i].dir = WV[ch]

\* C6 (as claimed): a stack that cannot be read is skipped: the loop goes on with
\* the next stack
C6_ReadFailureSkipsStack ==
    [][(err' = "imread" /\ err # "imread") => (pc' = "stack" /\ num_out' = num_out + 1)]_vars

\* C7 (as claimed): the array tested for channel c is the 2D slice of the frame at
\* channel c, and the extraction never fails
C7_TestedIsStackSlice ==
    /\ last.kind \in {"reject", "export"} => last.tested.flat = Extract(frame, last.c).flat
    /\ last.kind \in {"reject", "export"} => last.tested.shape = SliceShape
    /\ ~(last.kind = "crash" /\ last.tested = NoArr)

\* C8: the names written for a channel in this run are k.tiff, (k+1).tiff, ... in
\* export order, k being the counter at the start of the run
C8_ConsecutiveNames ==
    \A ch \in Channels : written # <<>> =>
        \A i \in 1..Len(written[ch]) :
            written[ch][i].name = [stem |-> startCnt[ch] + i - 1, suffix |-> ".tiff"]

\* C8 witness: two slices of one channel were written in a run that resumed
C8_Witness ==
    \E ch \in Channels : written # <<>> /\ Len(written[ch]) >= 2 /\ startCnt[ch] >= 2

\* C9 (as claimed): a sentinel channel leaves no trace, and when the channel loop
\* of a frame is over every other channel of the frame has been examined
C9_ExaminedIffNotSentinel ==
    /\ \A ch \in Channels : (WV[ch] = SENTINEL /\ written # <<>>) =>
          /\ written[ch] = <<>>
          /\ num_slc[ch] = 0
          /\ (ch - 1) \notin examined
          /\ ds_size # <<>> => ds_size[ch] = 0
    /\ SENTINEL \notin dirs
    /\ (frame # NoArr /\ (pc = "frame" \/ (pc = "crashed" /\ err = "IndexError")))
          => \A ch \in 1..NCh : WV[ch] # SENTINEL => (ch - 1) \in examined

\* C10 (as claimed): the summary gives, for each wavelength that is not the
\* sentinel, the number of slices this run exported and the bytes exported
C10_SummaryOfThisRun ==
    pc = "done" =>
        /\ Len(summary) = Cardinality({ch \in Channels : WV[ch] # SENTINEL})
        /\ \A k \in 1..Len(summary) :
              /\ summary[k].images = Len(written[summary[k].c + 1])
              /\ "bytes" \in DOMAIN summary[k]

\* ------------------------------------------------------------ properties of the mic command
\* the channels (1-based) corrected so far with a model
CorrectedWithModel == {k \in 1..Len(corrected) : wavelength[k] # SENTINEL}

\* the pixels of channel k that equal the local dark-field value
AtDark(k) == {i \in 1..Size(stack[k]) : stack[k].flat[i] = models[k].z.flat[i]}

\* C11: in mode 0 every pixel that equals the local dark-field value is 0 in
\* the corrected stack
C11_ZeroLightAtDark ==
    mode = 0 => \A k \in CorrectedWithModel : \A i \in AtDark(k) : corrected[k].flat[i] = 0

\* C11 witness: a mode-0 run has corrected a channel with a nonzero pixel that
\* equals the dark-field, under a flat-field that is not uniform
C11_Witness ==
    /\ mode = 0
    /\ mic = "done"
    /\ \E k \in CorrectedWithModel : \E i \in AtDark(k) :
          /\ stack[k].flat[i] > 0
          /\ models[k].v.flat[i] * Size(models[k].v) # SumSeq(models[k].v.flat)

\* C12: in mode 1 every pixel that equals the local dark-field value keeps
\* that value in the corrected stack
C12_DynamicRangeAtDark ==
    mode = 1 => \A k \in CorrectedWithModel : \A i \in AtDark(k) :
                    corrected[k].flat[i] = models[k].z.flat[i]

\* C12 witness: a mode-1 run has corrected a channel with a nonzero pixel that
\* equals the dark-field, under a flat-field that is not uniform
C12_Witness ==
    /\ mode = 1
    /\ mic = "done"
    /\ \E k \in CorrectedWithModel : \E i \in AtDark(k) :
          /\ stack[k].flat[i] > 0
          /\ models[k].v.flat[i] * Size(models[k].v) # SumSeq(models[k].v.flat)

\* C13: a channel given the wavelength -1 is in the corrected stack as it is in
\* the input
C13_SentinelPassThrough ==
    \A k \in 1..Len(corrected) : wavelength[k] = SENTINEL => corrected[k] = stack[k]

\* C13 witness: a run is over in which a channel with nonzero pixels was passed
\* through and another channel was changed by the correction
C13_Witness ==
    /\ mic = "done"
    /\ \E k, j \in 1..Len(corrected) :
          /\ wavelength[k] = SENTINEL
          /\ \E i \in 1..Size(stack[k]) : stack[k].flat[i] > 0
          /\ wavelength[j] # SENTINEL
          /\ corrected[j] # stack[j]

\* C14: the models used for a channel have the channel's (Y, X) shape, and the
\* corrected stack has the channels and the shapes of the input stack
C14_ModelResizedToStack ==
    /\ mic \in {"correct", "done"} =>
          \A k \in 1..Len(stack) : wavelength[k] # SENTINEL =>
              /\ models[k].v.shape = stack[k].shape
              /\ models[k].z.shape = stack[k].shape
    /\ \A k \in 1..Len(corrected) : corrected[k].shape = stack[k].shape
    /\ mic = "done" => Len(corrected) = Len(stack)

\* C14 witness: a stack smaller than the models has been corrected
C14_Witness ==
    /\ mic = "done"
    /\ \E k \in CorrectedWithModel :
          /\ stack[k].shape # ModelShape
          /\ field[wavelength[k]].v.shape = ModelShape
          /\ corrected[k] # stack[k]

\* ------------------------------------------------------------ properties of the curation loops
\* every wavelength that is processed has reached the budget
AllReached ==
    /\ ds_size # <<>>
    /\ \A ch \in Channels : WV[ch] # SENTINEL => ds_size[ch] >= max_dset_size

\* C15 (as claimed): once every wavelength has reached max_dset_size, no further
\* slice of the current stack is examined or exported
C15_StackLeftWhenAllReached ==
    [][(pc \in {"frame", "chan"} /\ AllReached)
          => /\ files' = files
             /\ ~(last' # last /\ last'.kind \in {"reject", "export"})]_vars

\* the bytes of the files channel ch (1-based) wrote in this run
RECURSIVE WrittenBytes(_)
WrittenBytes(w) == IF w = <<>> THEN 0 ELSE Head(w).nbytes + WrittenBytes(Tail(w))

\* C16: for every channel the counter has grown by the number of files written
\* for it in this run and ds_size is the sum of the bytes of those files; a
\* slice that fails the inclusion test changes none of counter, budget, folders
C16_CounterAndBudgetAccount ==
    /\ [](\A ch \in Channels : written # <<>> =>
            /\ num_slc[ch] - startCnt[ch] = Len(written[ch])
            /\ ds_size # <<>> => ds_size[ch] = WrittenBytes(written[ch])
            /\ ds_size = <<>> => written[ch] = <<>>)
    /\ [][(last'.kind = "reject" /\ last' # last)
            => (num_slc' = num_slc /\ ds_size' = ds_size /\ files' = files /\ dirs' = dirs)]_vars

\* C16 witness: a slice is rejected in a resumed run after two slices of one
\* channel were written, one of them resized
C16_Witness ==
    /\ last.kind = "reject"
    /\ x_shp_out = <<2>>
    /\ \E ch \in Channels :
          /\ Len(written[ch]) >= 2
          /\ startCnt[ch] >= 1
          /\ ds_size[ch] >= 32

\* C17 (as claimed): an exported slice is resampled to (height, x_shp_out) when
\* x_shp_out is set and differs from its width, and is the extracted slice,
\* unchanged, otherwise
C17_ResampledIffWidthDiffers ==
    last.kind = "export" =>
        IF x_shp_out # <<>> /\ x_shp_out[1] # WidthOf(last.tested)
        THEN last.arr.shape = <<last.tested.shape[1], x_shp_out[1]>>
        ELSE last.arr = last.tested

\* the z loop and the channel loop advance as range(0, Z, z_strd) and
\* range(C) do, and files are written only for the z-index the loop is at
StrideOrder ==
    /\ (pc = "stack" /\ pc' = "frame") => z' = 0
    /\ (pc = "frame" /\ pc' = "chan") =>
          (z' = z /\ c' = 0 /\ z < img.shape[1] /\ z_strd >= 1 /\ z % z_strd = 0)
    /\ (pc = "chan" /\ pc' = "chan") => (z' = z /\ c' = c + 1)
    /\ (pc = "chan" /\ pc' = "frame") => z' = z + z_strd
    /\ files' # files => (pc = "chan" /\ last'.z = z /\ last'.c = c)

\* the loops over a stack are left, and not by an interrupt of the user
StackLeft ==
    /\ pc \in {"frame", "chan"}
    /\ pc' \notin {"frame", "chan"}
    /\ err' # "KeyboardInterrupt"

\* C18 (as claimed): the z-indices examined in a stack are 0, s, 2s, ... in
\* ascending order with the channels in ascending order inside each, files are
\* written for these only, and the stack is left only when no such z-index
\* below Z remains to be examined
C18_StrideVisitsAll ==
    [][/\ StrideOrder
       /\ StackLeft => \/ pc = "frame" /\ z >= img.shape[1]
                       \/ pc = "chan" /\ z + z_strd >= img.shape[1]]_vars

\* the entries of the source directory that are regular files whose lower-cased
\* path ends with one of the suffixes
Matching ==
    {e \in source : e.isfile /\ \E k \in 1..Len(formats) : Lower(e.tail) = formats[k]}

\* C19 (as claimed): the stacks of a run are the matching files, each once; they
\* are loaded in the order of the list, one per count of the progress counter;
\* a run over readable stacks that the user does not interrupt ends only with
\* the summary, after the last stack, with the counter past the number of stacks
C19_EveryStackLoadedOnce ==
    /\ [](pc \in {"ready", "stack", "frame", "chan", "done"} =>
            /\ {stack_lst[i] : i \in 1..Len(stack_lst)} = Matching
            /\ Len(stack_lst) = Cardinality(Matching))
    /\ [][(img' # img /\ img' # NoImg) =>
            (pc = "stack" /\ num_out \in 1..num_stk /\ img'.file = stack_lst[num_out]
               /\ num_out' = num_out)]_vars
    /\ [][(num_out' # num_out /\ pc \in {"stack", "frame", "chan"} /\ pc' # "cfg") =>
            (num_out' = num_out + 1 /\ img # NoImg /\ img' = NoImg)]_vars
    /\ [](pc = "done" => num_out = num_stk + 1)
    /\ [](pc = "crashed" => err \in {"imread", "KeyboardInterrupt"})

\* ------------------------------------------------------------ properties of the model notebook
\* C20: v.tif and z.tif have the shape of the model that was loaded, and every
\* row (column, for a tall model) of each holds one value
C20_ModelShapeKept ==
    nb = "done" =>
        /\ v_tif.shape = mat_shape
        /\ z_tif.shape = mat_shape
        /\ Size(v_tif) = Prod(mat_shape)
        /\ Size(z_tif) = Prod(mat_shape)

\* C20 witness: a tall model has been cropped to a window narrower than its
\* long side and written
C20_Witness ==
    /\ nb = "done"
    /\ mat_shape[1] > mat_shape[2]
    /\ crop_s = 1
    /\ crop_e = 2
    /\ v_tif.shape[1] >= 3

====
